---- MODULE Spec2Model ----
(***************************************************************************)
(* Travel-Agent-AI: the structured-completion pipeline of                   *)
(* v5_guardrails_and_context.py (handle_query), the fence stripping of      *)
(* v2_structured_output.py, and the chat GUI of v6_streamlit_agent.py.      *)
(*                                                                          *)
(* Text is a sequence of one-character strings.  A JSON object is the text  *)
(* <<"{", p, "}">> where p is a payload atom standing for the member list   *)
(* of the object (JsonMembers gives its members); whitespace may surround   *)
(* each of the three tokens.  <<"{", "}">> is the empty object.             *)
(***************************************************************************)
EXTENDS Integers, Sequences, FiniteSets, TLC

\* ---------------------------------------------------------------- bounds
\* Longest query, in words.
MaxQueryWords == 2
\* Longest raw text of the sanitizer specification, in segments.
MaxSegs == 4
\* Most script runs of one GUI session that submit a text.
MaxTurns == 2

\* ------------------------------------------------------- Python str helpers
Chars(s) == { s[i] : i \in 1..Len(s) }

\* str.strip() with no argument strips whitespace.
Whitespace == {" ", "\n"}

RECURSIVE LStrip(_, _)
LStrip(s, cs) ==
  IF s # <<>> /\ Head(s) \in cs THEN LStrip(Tail(s), cs) ELSE s

RECURSIVE RStrip(_, _)
RStrip(s, cs) ==
  IF s # <<>> /\ s[Len(s)] \in cs THEN RStrip(SubSeq(s, 1, Len(s) - 1), cs) ELSE s

\* str.strip(chars): drop leading and trailing characters that are in chars.
StripChars(s, cs) == RStrip(LStrip(s, cs), cs)

\* str.startswith(prefix)
StartsWith(s, p) == Len(s) >= Len(p) /\ SubSeq(s, 1, Len(p)) = p

\* str.endswith(suffix)
EndsWith(s, p) == Len(s) >= Len(p) /\ SubSeq(s, Len(s) - Len(p) + 1, Len(s)) = p

\* the Python test: sub in s
Contains(s, sub) ==
  \E i \in 0..(Len(s) - Len(sub)) : SubSeq(s, i + 1, i + Len(sub)) = sub

UpperLetters ==
  <<"A","B","C","D","E","F","G","H","I","J","K","L","M",
    "N","O","P","Q","R","S","T","U","V","W","X","Y","Z">>
LowerLetters ==
  <<"a","b","c","d","e","f","g","h","i","j","k","l","m",
    "n","o","p","q","r","s","t","u","v","w","x","y","z">>

LowerChar(c) ==
  IF \E i \in 1..26 : UpperLetters[i] = c
    THEN LowerLetters[CHOOSE i \in 1..26 : UpperLetters[i] = c]
    ELSE c

\* str.lower()
Lower(s) == [i \in 1..Len(s) |-> LowerChar(s[i])]

\* The back-quote character U+0060, written as a token because a TLA+ string
\* cannot hold it.
Backquote == "BQ"
Fence == <<Backquote, Backquote, Backquote>>
JsonTag == <<"j", "s", "o", "n">>
NL == <<"\n">>
SP == <<" ">>

\* ------------------------------------------------ the v5 fence stripping
\* s.split(newline, 1)[1]: the text after the first newline; IndexError when
\* the text holds no newline.
Split1(s) ==
  IF "\n" \in Chars(s)
    THEN LET i == CHOOSE k \in 1..Len(s) :
                    s[k] = "\n" /\ \A m \in 1..(k - 1) : s[m] # "\n"
         IN [ok |-> TRUE, text |-> SubSeq(s, i + 1, Len(s))]
    ELSE [ok |-> FALSE, exc |-> "IndexError"]

\* content.strip(), strip of the back-quote character, strip() again; then
\* a text starting with json loses its first line.
Sanitize(raw) ==
  LET s == StripChars(StripChars(StripChars(raw, Whitespace), {Backquote}), Whitespace)
  IN IF StartsWith(s, JsonTag) THEN Split1(s) ELSE [ok |-> TRUE, text |-> s]

\* ------------------------------------------------- the v2 fence stripping
\* re.sub over raw.strip(), case-insensitive, then strip(): the pattern is
\* (start of text, fence, json, optional newline) or (fence, end of text).
\* The first alternative matches only at the start of the text, the second
\* only at its end; matches do not overlap.
V2Clean(raw) ==
  LET s    == StripChars(raw, Whitespace)
      open == Fence \o JsonTag
      hasO == StartsWith(Lower(s), open)
      r1   == IF hasO THEN SubSeq(s, Len(open) + 1, Len(s)) ELSE s
      r2   == IF hasO /\ StartsWith(r1, NL) THEN Tail(r1) ELSE r1
      r3   == IF EndsWith(r2, Fence) THEN SubSeq(r2, 1, Len(r2) - 3) ELSE r2
  IN StripChars(r3, Whitespace)

\* ------------------------------------------------------------- JSON text
\* JSON values carry their JSON type in t.
Str(x)  == [t |-> "str",  v |-> x]
Num(n)  == [t |-> "num",  v |-> n]
Bool(b) == [t |-> "bool", v |-> b]
List(l) == [t |-> "list", v |-> l]
Null    == [t |-> "null"]

\* The member lists the model's completions can hold.
Payloads ==
  { "flight_ok", "flight_neg", "flight_partial",
    "hotel_ok", "hotel_neg",
    "plan_ok", "plan_neg", "plan_zero_days",
    "budget_pass", "budget_block", "budget_block_bare", "budget_block_neg" }

FlightMembers(price) ==
  [airline |-> Str("Delta"), departure_time |-> Str("08:00"),
   arrival_time |-> Str("11:00"), price |-> Num(price),
   direct_flight |-> Bool(TRUE), recommendation_reason |-> Str("cheapest")]

HotelMembers(price) ==
  [name |-> Str("Ritz"), location |-> Str("Paris"),
   price_per_night |-> Num(price), amenities |-> List(<<"WiFi", "Pool">>),
   recommendation_reason |-> Str("central")]

PlanMembers(days, budget) ==
  [destination |-> Str("Miami"), duration_days |-> Num(days),
   budget |-> Num(budget), activities |-> List(<<"beach", "museum">>),
   notes |-> Str("pack light")]

JsonMembers(p) ==
  CASE p = "flight_ok"         -> FlightMembers(250)
    [] p = "flight_neg"        -> FlightMembers(-1)
    [] p = "flight_partial"    -> [airline |-> Str("Delta")]
    [] p = "hotel_ok"          -> HotelMembers(120)
    [] p = "hotel_neg"         -> HotelMembers(-1)
    [] p = "plan_ok"           -> PlanMembers(5, 2000)
    [] p = "plan_neg"          -> PlanMembers(5, -1)
    [] p = "plan_zero_days"    -> PlanMembers(0, 2000)
    [] p = "budget_pass"       -> [is_realistic |-> Bool(TRUE), reasoning |-> Str("fine")]
    [] p = "budget_block"      -> [is_realistic |-> Bool(FALSE), reasoning |-> Str("too low"),
                                   suggested_budget |-> Num(1500)]
    [] p = "budget_block_bare" -> [is_realistic |-> Bool(FALSE), reasoning |-> Str("too low")]
    [] p = "budget_block_neg"  -> [is_realistic |-> Bool(FALSE), reasoning |-> Str("too low"),
                                   suggested_budget |-> Num(-5)]

NotSpace(c) == c \notin Whitespace

EmptyObject == [f \in {} |-> Null]

\* The JSON parser of model_validate_json, on the texts of the model:
\* whitespace between tokens is skipped, and the text must be one object.
JsonLoads(text) ==
  LET toks == SelectSeq(text, NotSpace)
  IN CASE toks = <<"{", "}">> -> [ok |-> TRUE, obj |-> EmptyObject]
       [] Len(toks) = 3 /\ toks[1] = "{" /\ toks[3] = "}" /\ toks[2] \in Payloads
            -> [ok |-> TRUE, obj |-> JsonMembers(toks[2])]
       [] OTHER -> [ok |-> FALSE]

\* ------------------------------------------------------------ the schemas
FlightRecommendation ==
  [airline |-> "str", departure_time |-> "str", arrival_time |-> "str",
   price |-> "float", direct_flight |-> "bool", recommendation_reason |-> "str"]

HotelRecommendation ==
  [name |-> "str", location |-> "str", price_per_night |-> "float",
   amenities |-> "List[str]", recommendation_reason |-> "str"]

TravelPlan ==
  [destination |-> "str", duration_days |-> "int", budget |-> "float",
   activities |-> "List[str]", notes |-> "str"]

BudgetAnalysis ==
  [is_realistic |-> "bool", reasoning |-> "str", suggested_budget |-> "Optional[float]"]

SchemaKinds == {"FlightRecommendation", "HotelRecommendation", "TravelPlan", "BudgetAnalysis"}

Fields(kind) ==
  CASE kind = "FlightRecommendation" -> FlightRecommendation
    [] kind = "HotelRecommendation"  -> HotelRecommendation
    [] kind = "TravelPlan"           -> TravelPlan
    [] kind = "BudgetAnalysis"       -> BudgetAnalysis

\* A field with a default may be absent; only Optional[float] = None has one.
HasDefault(ty) == ty = "Optional[float]"

\* The annotation alone decides: a bare float or int carries no range.
\* (Every number of the model is integral, every list a list of strings.)
TypeOk(ty, val) ==
  CASE ty = "str"             -> val.t = "str"
    [] ty = "float"           -> val.t = "num"
    [] ty = "int"             -> val.t = "num"
    [] ty = "bool"            -> val.t = "bool"
    [] ty = "List[str]"       -> val.t = "list"
    [] ty = "Optional[float]" -> val.t \in {"num", "null"}

\* Every problem is reported, not only the first.
Problems(kind, obj) ==
  LET fs == Fields(kind)
  IN { <<f, "missing">> : f \in { g \in DOMAIN fs \ DOMAIN obj : ~HasDefault(fs[g]) } }
       \cup
     { <<f, "type">> : f \in { g \in DOMAIN fs \cap DOMAIN obj : ~TypeOk(fs[g], obj[g]) } }

\* The model instance: exactly the fields of the kind, extra members dropped.
Instance(kind, obj) ==
  [model |-> kind,
   data  |-> [f \in DOMAIN Fields(kind) |-> IF f \in DOMAIN obj THEN obj[f] ELSE Null]]

\* model_type.model_validate_json(text): the instance, or a ValidationError.
ModelValidateJson(kind, text) ==
  LET j == JsonLoads(text)
  IN IF ~j.ok
       THEN [ok |-> FALSE, error |-> [schema |-> kind, problems |-> {<<"$", "json_invalid">>}]]
       ELSE IF Problems(kind, j.obj) # {}
         THEN [ok |-> FALSE, error |-> [schema |-> kind, problems |-> Problems(kind, j.obj)]]
         ELSE [ok |-> TRUE, value |-> Instance(kind, j.obj)]

\* --------------------------------------------------------------- inputs
\* Words a query is made of; queries are words joined by single spaces.
QueryWords ==
  { <<"f","l","i","g","h","t">>, <<"F","l","i","G","H","T">>,
    <<"h","o","t","e","l">>,     <<"H","O","T","E","L","s">>,
    <<"f","l","i","g","h">>,     <<"t","r","i","p">> }

RECURSIVE QueriesOf(_)
QueriesOf(n) ==
  IF n = 1 THEN QueryWords
  ELSE QueriesOf(n - 1) \cup { q \o SP \o w : q \in QueriesOf(n - 1), w \in QueryWords }

Queries == QueriesOf(MaxQueryWords)

Object(p) == <<"{", p, "}">>
\* A fenced block: the opening fence line, the document, the closing fence line.
Fenced(tagged, doc) ==
  Fence \o (IF tagged THEN JsonTag ELSE <<>>) \o NL \o doc \o NL \o Fence

\* Completion texts the gateway may return.
Completions ==
  { Object(p) : p \in Payloads }
    \cup { Fenced(TRUE, Object(p)) : p \in {"flight_ok", "hotel_ok", "plan_neg", "budget_block"} }
    \cup { Fenced(FALSE, Object(p)) : p \in {"plan_ok", "budget_pass"} }
    \cup { <<"{", "}">>,                               \* an object with no member
           <<"s", "o", "r", "r", "y">>,                \* prose
           Fence \o JsonTag \o Object("plan_ok") \o Fence,   \* tag and document on one line
           JsonTag }

\* What one gateway call can do: raise a transport/provider error, or return text.
GatewayOutcomes ==
  { [raised |-> TRUE] } \cup { [raised |-> FALSE, content |-> c] : c \in Completions }

UserIds == {"uuid-a", "uuid-b"}
Clock == {"t1"}
\* What the three sidebar widgets can hold together.
PrefChoices ==
  { [preferred_airlines |-> <<"SkyWays", "OceanAir">>, hotel_amenities |-> <<"WiFi", "Pool">>,
     budget_level |-> "mid-range"],
    [preferred_airlines |-> <<"Delta">>, hotel_amenities |-> <<"WiFi", "Pool">>,
     budget_level |-> "luxury"],
    [preferred_airlines |-> <<>>, hotel_amenities |-> <<"Gym">>,
     budget_level |-> "budget"] }

DefaultPrefs ==
  [preferred_airlines |-> <<"SkyWays", "OceanAir">>, hotel_amenities |-> <<"WiFi", "Pool">>,
   budget_level |-> "mid-range"]

UserContext(uid, prefs, start) ==
  [user_id |-> uid, preferred_airlines |-> prefs.preferred_airlines,
   hotel_amenities |-> prefs.hotel_amenities, budget_level |-> prefs.budget_level,
   session_start |-> start]

\* The context the command-line runner builds.
CliContext == UserContext("user123", DefaultPrefs, "t1")

\* ------------------------------------------------------- prompt builders
\* build_prompt's schemas dictionary.
SchemaOfTask(task) ==
  CASE task = "flight" -> "FlightRecommendation"
    [] task = "hotel"  -> "HotelRecommendation"
    [] task = "plan"   -> "TravelPlan"

\* A prompt builder that writes into the context it is given.
BuildPromptMutating(task, q, context) ==
  [prompt  |-> [role |-> "travel assistant", schema |-> SchemaOfTask(task), query |-> q,
                preferences |-> [preferred_airlines |-> context.preferred_airlines,
                                 hotel_amenities |-> context.hotel_amenities,
                                 budget_level |-> context.budget_level,
                                 session_start |-> context.session_start]],
   context |-> [context EXCEPT !.budget_level = "budget"]]

\* build_prompt: the prompt text, and the context object as the call leaves it.
BuildPrompt(task, q, context) ==
  [prompt  |-> [role |-> "travel assistant", schema |-> SchemaOfTask(task), query |-> q,
                preferences |-> [preferred_airlines |-> context.preferred_airlines,
                                 hotel_amenities |-> context.hotel_amenities,
                                 budget_level |-> context.budget_level,
                                 session_start |-> context.session_start]],
   context |-> context]

BuildBudgetCheckPrompt(q) ==
  [role |-> "budget check", schema |-> "BudgetAnalysis", query |-> q]

\* ------------------------------------------------------ intent routing
KwFlight == <<"f","l","i","g","h","t">>
KwHotel  == <<"h","o","t","e","l">>

\* A router that tests hotel first.
RouteHotelFirst(q) ==
  IF Contains(Lower(q), KwHotel)
    THEN [task_type |-> "hotel", model_type |-> "HotelRecommendation"]
    ELSE IF Contains(Lower(q), KwFlight)
      THEN [task_type |-> "flight", model_type |-> "FlightRecommendation"]
      ELSE [task_type |-> "plan", model_type |-> "TravelPlan"]

Route(q) ==
  IF Contains(Lower(q), KwFlight)
    THEN [task_type |-> "flight", model_type |-> "FlightRecommendation"]
    ELSE IF Contains(Lower(q), KwHotel)
      THEN [task_type |-> "hotel", model_type |-> "HotelRecommendation"]
      ELSE [task_type |-> "plan", model_type |-> "TravelPlan"]

\* ------------------------------------------------ the two halves of handle_query
\* A guardrail whose test of is_realistic is inverted.
GuardrailStepInverted(g) ==
  IF g.raised THEN [kind |-> "proceed"]
  ELSE LET s == Sanitize(g.content)
       IN IF ~s.ok THEN [kind |-> "proceed"]
          ELSE LET b == ModelValidateJson("BudgetAnalysis", s.text)
               IN IF b.ok /\ b.value.data.is_realistic.v
                    THEN [kind |-> "return",
                          value |-> [type |-> "guardrail",
                                     reasoning |-> b.value.data.reasoning,
                                     suggested_budget |-> b.value.data.suggested_budget]]
                    ELSE [kind |-> "proceed"]

\* A guardrail without the except clause: a failure leaves handle_query.
GuardrailStepNoExcept(g) ==
  IF g.raised THEN [kind |-> "raise", exc |-> "APIError"]
  ELSE LET s == Sanitize(g.content)
       IN IF ~s.ok THEN [kind |-> "raise", exc |-> s.exc]
          ELSE LET b == ModelValidateJson("BudgetAnalysis", s.text)
               IN IF ~b.ok THEN [kind |-> "raise", exc |-> "ValidationError"]
                  ELSE IF ~b.value.data.is_realistic.v
                    THEN [kind |-> "return",
                          value |-> [type |-> "guardrail",
                                     reasoning |-> b.value.data.reasoning,
                                     suggested_budget |-> b.value.data.suggested_budget]]
                    ELSE [kind |-> "proceed"]

\* The guardrail try block, from the gateway's answer on: the guardrail dict is
\* returned, or control falls through to routing (also from the except clause,
\* which catches every Exception).
GuardrailStep(g) ==
  IF g.raised THEN [kind |-> "proceed"]
  ELSE LET s == Sanitize(g.content)
       IN IF ~s.ok THEN [kind |-> "proceed"]
          ELSE LET b == ModelValidateJson("BudgetAnalysis", s.text)
               IN IF b.ok /\ ~b.value.data.is_realistic.v
                    THEN [kind |-> "return",
                          value |-> [type |-> "guardrail",
                                     reasoning |-> b.value.data.reasoning,
                                     suggested_budget |-> b.value.data.suggested_budget]]
                    ELSE [kind |-> "proceed"]

\* The main try block, from the gateway's answer on.  Only ValidationError is
\* caught: a gateway error, and the IndexError of the split, leave handle_query.
MainStep(mtype, g) ==
  IF g.raised THEN [kind |-> "raise", exc |-> "APIError"]
  ELSE LET s == Sanitize(g.content)
       IN IF ~s.ok THEN [kind |-> "raise", exc |-> s.exc]
          ELSE LET r == ModelValidateJson(mtype, s.text)
               IN IF r.ok THEN [kind |-> "return", value |-> r.value]
                  ELSE [kind |-> "return",
                        value |-> [type |-> "error", error |-> r.error]]

\* ------------------------------------------------ format_agent_response
\* The rendering is kept as the template chosen and the values put into it.
FormatAgentResponse(result) ==
  LET response_dict == IF "model" \in DOMAIN result
                         THEN [result |-> result.data]      \* model_dump()
                         ELSE result
  IN IF "type" \in DOMAIN response_dict /\ response_dict.type = "guardrail"
       THEN [view |-> "guardrail", reasoning |-> response_dict.reasoning,
             suggested_budget |-> response_dict.suggested_budget]
       ELSE IF "result" \notin DOMAIN response_dict
         THEN [view |-> "str", text |-> "None"]              \* str(None)
         ELSE LET r == response_dict.result
              IN IF "destination" \in DOMAIN r
                   THEN [view |-> "plan", destination |-> r.destination,
                         duration_days |-> r.duration_days, budget |-> r.budget,
                         activities |-> r.activities, notes |-> r.notes]
                   ELSE IF "airline" \in DOMAIN r
                     THEN [view |-> "flight", airline |-> r.airline,
                           departure_time |-> r.departure_time,
                           arrival_time |-> r.arrival_time, price |-> r.price,
                           direct_flight |-> r.direct_flight,
                           recommendation_reason |-> r.recommendation_reason]
                     ELSE IF "name" \in DOMAIN r /\ "amenities" \in DOMAIN r
                       THEN [view |-> "hotel", name |-> r.name, location |-> r.location,
                             price_per_night |-> r.price_per_night,
                             amenities |-> r.amenities,
                             recommendation_reason |-> r.recommendation_reason]
                       ELSE [view |-> "str", text |-> "dict"]

\* ------------------------------------------------------------- the state
VARIABLES
  \* st.session_state and the widgets of the page
  session_keys,        \* the keys present in st.session_state
  chat_history, user_context, processing_message, user_input_value,
  chat_input,          \* what the text box holds
  widgets,             \* what the three preference widgets hold
  button,              \* the button whose click started the current run
  run_pc,              \* "idle", or "agent" while the script waits in handle_query
  \* one invocation of handle_query
  hq_pc,               \* "idle", "await_guardrail", "await_main", "done"
  query, calls, guardrail_response, response, task_type, model_type, outcome,
  \* the command-line runner
  proc,                \* "running" or "crashed"
  \* fence stripping applied to one raw text, twice over (v5 and v2)
  san_raw, san_pc, once, twice, v2_pc, v2_once, v2_twice,
  \* one JSON document, validated directly and through a fenced block
  fx_kind, fx_doc, fx_tagged, fx_pc, fx_direct, fx_clean, fx_wrapped, fx_v2_wrapped

gui_vars == <<session_keys, chat_history, processing_message, user_input_value,
              chat_input, widgets, button, run_pc>>
hq_vars  == <<hq_pc, query, calls, guardrail_response, response, task_type,
              model_type, outcome>>
app_vars == <<gui_vars, user_context, hq_vars, proc>>
san_vars == <<san_raw, san_pc, once, twice, v2_pc, v2_once, v2_twice>>
fx_vars  == <<fx_kind, fx_doc, fx_tagged, fx_pc, fx_direct, fx_clean, fx_wrapped,
              fx_v2_wrapped>>
vars     == <<app_vars, san_vars, fx_vars>>

\* Python's None, where a text is expected (no text is this sequence).
None  == <<"None">>
\* A local of handle_query that is not bound yet.
Unset == [unset |-> TRUE]

AllKeys == {"chat_history", "thread_id", "user_context", "processing_message",
            "user_input_value"}

\* ---------------------------------------------------- handle_query, stepwise
\* Entry to handle_query: the budget-check prompt is built and sent.
Invoke(q) ==
  /\ hq_pc' = "await_guardrail"
  /\ query' = q
  /\ calls' = << [prompt |-> BuildBudgetCheckPrompt(q), temperature |-> "0.2"] >>
  /\ guardrail_response' = Unset
  /\ response' = Unset
  /\ task_type' = "unset"
  /\ model_type' = "unset"
  /\ outcome' = Unset

\* The guardrail call answers and handle_query leaves at once: the guardrail
\* dict is returned.
GuardrailBlocks(G) ==
  /\ hq_pc = "await_guardrail"
  /\ \E g \in G :
       LET gs == GuardrailStep(g)
       IN /\ gs.kind # "proceed"
          /\ guardrail_response' = g
          /\ outcome' = gs
          /\ hq_pc' = "done"
  /\ UNCHANGED <<query, calls, response, task_type, model_type>>
  /\ UNCHANGED <<gui_vars, user_context, proc, san_vars, fx_vars>>

\* The guardrail call answers and control reaches routing: the query is routed,
\* the main prompt is built and sent.
GuardrailProceeds(G) ==
  /\ hq_pc = "await_guardrail"
  /\ \E g \in G :
       LET gs == GuardrailStep(g)
           rt == Route(query)
           bp == BuildPrompt(rt.task_type, query, user_context)
       IN /\ gs.kind = "proceed"
          /\ guardrail_response' = g
          /\ task_type' = rt.task_type
          /\ model_type' = rt.model_type
          /\ user_context' = bp.context
          /\ calls' = Append(calls, [prompt |-> bp.prompt, temperature |-> "0.7"])
          /\ hq_pc' = "await_main"
  /\ UNCHANGED <<query, response, outcome>>
  /\ UNCHANGED <<gui_vars, proc, san_vars, fx_vars>>

\* The main call answers: handle_query returns a record or an error dict, or
\* an exception leaves it.
MainReturns(G) ==
  /\ hq_pc = "await_main"
  /\ \E g \in G :
       /\ response' = g
       /\ outcome' = MainStep(model_type, g)
       /\ hq_pc' = "done"
  /\ UNCHANGED <<query, calls, guardrail_response, task_type, model_type>>
  /\ UNCHANGED <<gui_vars, user_context, proc, san_vars, fx_vars>>

\* The locals of a finished invocation are gone.
Forget ==
  /\ hq_pc' = "idle"
  /\ query' = <<>>
  /\ calls' = <<>>
  /\ guardrail_response' = Unset
  /\ response' = Unset
  /\ task_type' = "unset"
  /\ model_type' = "unset"
  /\ outcome' = Unset

\* ----------------------------------------------- the command-line runner
\* for query in queries: result = await handle_query(query, context)
CliCall ==
  /\ proc = "running"
  /\ hq_pc = "idle"
  /\ \E q \in Queries : Invoke(q)
  /\ UNCHANGED <<gui_vars, user_context, proc, san_vars, fx_vars>>

\* The result is printed and the loop goes on; an exception ends the process.
CliNext ==
  /\ proc = "running"
  /\ hq_pc = "done"
  /\ proc' = IF outcome.kind = "raise" THEN "crashed" ELSE "running"
  /\ Forget
  /\ UNCHANGED <<gui_vars, user_context, san_vars, fx_vars>>

\* No script run yet, no invocation of handle_query in progress.
AppIdle ==
  /\ session_keys = {}
  /\ chat_history = <<>>
  /\ processing_message = None
  /\ user_input_value = <<>>
  /\ chat_input = <<>>
  /\ widgets = DefaultPrefs
  /\ button = "none"
  /\ run_pc = "idle"
  /\ hq_pc = "idle"
  /\ query = <<>>
  /\ calls = <<>>
  /\ guardrail_response = Unset
  /\ response = Unset
  /\ task_type = "unset"
  /\ model_type = "unset"
  /\ outcome = Unset
  /\ proc = "running"

SanIdle ==
  /\ san_raw = <<>>
  /\ san_pc = "off"
  /\ once = Unset
  /\ twice = Unset
  /\ v2_pc = "off"
  /\ v2_once = Unset
  /\ v2_twice = Unset

FxIdle ==
  /\ fx_kind = "unset"
  /\ fx_doc = <<>>
  /\ fx_tagged = FALSE
  /\ fx_pc = "off"
  /\ fx_direct = Unset
  /\ fx_clean = Unset
  /\ fx_wrapped = Unset
  /\ fx_v2_wrapped = Unset

\* The command-line runner has built its context (with any preferences) and
\* is about to loop.
Init ==
  /\ AppIdle
  /\ user_context \in { UserContext("user123", p, "t1") : p \in PrefChoices }
  /\ SanIdle
  /\ FxIdle

Next ==
  \/ CliCall
  \/ GuardrailBlocks(GatewayOutcomes)
  \/ GuardrailProceeds(GatewayOutcomes)
  \/ MainReturns(GatewayOutcomes)
  \/ CliNext

Spec == Init /\ [][Next]_vars

\* ======================================================= claims on handle_query
\* The guardrail completion g sanitizes and validates as a BudgetAnalysis
\* with is_realistic = false.
BlockAnswer(g) ==
  /\ ~g.raised
  /\ Sanitize(g.content).ok
  /\ LET b == ModelValidateJson("BudgetAnalysis", Sanitize(g.content).text)
     IN b.ok /\ b.value.data.is_realistic = Bool(FALSE)

\* The guardrail step failed: the call raised, the sanitizing step failed, or
\* the text does not validate as a BudgetAnalysis.
GuardrailFailed(g) ==
  \/ g.raised
  \/ ~Sanitize(g.content).ok
  \/ ~ModelValidateJson("BudgetAnalysis", Sanitize(g.content).text).ok

IsGuardrailResult(o) ==
  o.kind = "return" /\ "type" \in DOMAIN o.value /\ o.value.type = "guardrail"
IsErrorResult(o) ==
  o.kind = "return" /\ "type" \in DOMAIN o.value /\ o.value.type = "error"
IsRecordResult(o) ==
  o.kind = "return" /\ "model" \in DOMAIN o.value

\* C1: once the guardrail answer is a BudgetAnalysis with is_realistic = false,
\* handle_query has returned the guardrail result and the budget-check call is
\* the only gateway call of the invocation.
C1_BlockShortCircuits ==
  (guardrail_response # Unset /\ BlockAnswer(guardrail_response)) =>
    /\ hq_pc = "done"
    /\ IsGuardrailResult(outcome)
    /\ response = Unset
    /\ Len(calls) = 1
    /\ calls[1].prompt.schema = "BudgetAnalysis"

C1_Witness ==
  /\ hq_pc = "done"
  /\ guardrail_response # Unset
  /\ BlockAnswer(guardrail_response)
  /\ StartsWith(guardrail_response.content, Fence)
  /\ outcome.value.suggested_budget = Num(1500)

\* C2: once the guardrail step has failed in any of the three ways, the query
\* has been routed and the main request is the second gateway call.
C2_FailOpen ==
  (guardrail_response # Unset /\ GuardrailFailed(guardrail_response)) =>
    /\ hq_pc \in {"await_main", "done"}
    /\ task_type \in {"flight", "hotel", "plan"}
    /\ Len(calls) = 2
    /\ calls[2].prompt.role = "travel assistant"
    /\ calls[2].prompt.query = query
    /\ (hq_pc = "done" => response # Unset)

C2_Witness ==
  /\ hq_pc = "done"
  /\ guardrail_response # Unset
  /\ guardrail_response.raised
  /\ Len(calls) = 2
  /\ IsRecordResult(outcome)

\* C3 as claimed: whenever handle_query has finished, it has returned a tagged
\* result; no exception leaves it and the caller keeps running.
C3_AlwaysTaggedResult ==
  /\ (hq_pc = "done" => outcome.kind = "return")
  /\ proc # "crashed"

\* The main completion was received, was stripped, and failed validation
\* against the routed schema.
MainValidationFailed ==
  /\ response # Unset
  /\ ~response.raised
  /\ Sanitize(response.content).ok
  /\ ~ModelValidateJson(model_type, Sanitize(response.content).text).ok

\* C4 as claimed: after a validation failure of the main completion the result
\* is an error result holding the failure detail and the raw completion text,
\* and no third gateway call was made.
C4_ErrorCarriesRaw ==
  (hq_pc = "done" /\ MainValidationFailed) =>
    /\ IsErrorResult(outcome)
    /\ Len(calls) = 2
    /\ "error" \in DOMAIN outcome.value
    /\ "raw" \in DOMAIN outcome.value
    /\ outcome.value.raw = response.content

UpperChar(c) ==
  IF \E i \in 1..26 : LowerLetters[i] = c
    THEN UpperLetters[CHOOSE i \in 1..26 : LowerLetters[i] = c]
    ELSE c

\* The keyword occurs in q at some position, each letter in either case.
Mentions(q, kw) ==
  \E i \in 1..Len(q) :
    /\ i + Len(kw) - 1 <= Len(q)
    /\ \A k \in 1..Len(kw) : q[i + k - 1] \in {kw[k], UpperChar(kw[k])}

ExpectedKind(q) ==
  IF Mentions(q, KwFlight) THEN "FlightRecommendation"
  ELSE IF Mentions(q, KwHotel) THEN "HotelRecommendation"
  ELSE "TravelPlan"

\* C5: whatever the context and the guardrail answer, the schema of the main
\* prompt and the schema the completion is validated against are the kind the
\* query alone decides (flight before hotel before the TravelPlan default), and
\* a record that is returned is of that kind.
C5_RoutedKind ==
  hq_pc \in {"await_main", "done"} /\ Len(calls) = 2 =>
    /\ calls[2].prompt.schema = ExpectedKind(query)
    /\ model_type = ExpectedKind(query)
    /\ (hq_pc = "done" /\ IsRecordResult(outcome) =>
          /\ outcome.value.model = ExpectedKind(query)
          /\ DOMAIN outcome.value.data = DOMAIN Fields(ExpectedKind(query)))

C5_Witness ==
  /\ hq_pc = "done"
  /\ query = <<"H","O","T","E","L","s"," ","F","l","i","G","H","T">>
  /\ IsRecordResult(outcome)
  /\ outcome.value.model = "FlightRecommendation"

\* A number out of the range the data model gives its field.
OutOfRange(f, val) ==
  /\ val.t = "num"
  /\ \/ f \in {"price", "price_per_night", "budget", "suggested_budget"} /\ val.v < 0
     \/ f = "duration_days" /\ val.v <= 0

\* C9 as claimed: no typed record comes out of validation with a negative
\* price, price_per_night, budget or suggested_budget, or with a duration_days
\* that is not positive.
C9_RangesEnforced ==
  hq_pc = "done" =>
    /\ IsRecordResult(outcome) =>
         \A f \in DOMAIN outcome.value.data : ~OutOfRange(f, outcome.value.data[f])
    /\ IsGuardrailResult(outcome) =>
         ~OutOfRange("suggested_budget", outcome.value.suggested_budget)

\* ============================================== the fence stripping alone
\* Pieces raw completion text is made of.
Segments ==
  { Fence, <<Backquote>>, JsonTag, <<"J", "S", "O", "N">>, NL, SP, Object("plan_ok") }

RECURSIVE Concat(_)
Concat(ss) == IF ss = <<>> THEN <<>> ELSE Head(ss) \o Concat(Tail(ss))

RawTexts ==
  { Concat(ss) : ss \in UNION { [1..n -> Segments] : n \in 0..MaxSegs } }

SanInit ==
  /\ AppIdle
  /\ user_context = CliContext
  /\ FxIdle
  /\ san_raw \in RawTexts
  /\ san_pc = "start"
  /\ v2_pc = "start"
  /\ once = Unset
  /\ twice = Unset
  /\ v2_once = Unset
  /\ v2_twice = Unset

\* handle_query strips the text.
SanitizeFirst ==
  /\ san_pc = "start"
  /\ once' = Sanitize(san_raw)
  /\ san_pc' = IF Sanitize(san_raw).ok THEN "once" ELSE "failed"
  /\ UNCHANGED <<san_raw, twice, v2_pc, v2_once, v2_twice, app_vars, fx_vars>>

\* The stripped text is stripped again.
SanitizeAgain ==
  /\ san_pc = "once"
  /\ twice' = Sanitize(once.text)
  /\ san_pc' = "twice"
  /\ UNCHANGED <<san_raw, once, v2_pc, v2_once, v2_twice, app_vars, fx_vars>>

\* v2's main cleans the text.
V2CleanFirst ==
  /\ v2_pc = "start"
  /\ v2_once' = V2Clean(san_raw)
  /\ v2_pc' = "once"
  /\ UNCHANGED <<san_raw, san_pc, once, twice, v2_twice, app_vars, fx_vars>>

\* The cleaned text is cleaned again.
V2CleanAgain ==
  /\ v2_pc = "once"
  /\ v2_twice' = V2Clean(v2_once)
  /\ v2_pc' = "twice"
  /\ UNCHANGED <<san_raw, san_pc, once, twice, v2_once, app_vars, fx_vars>>

SanNext == SanitizeFirst \/ SanitizeAgain \/ V2CleanFirst \/ V2CleanAgain

SpecSan == SanInit /\ [][SanNext]_vars

\* C6 as claimed: stripping is idempotent; a second pass over the output of a
\* successful first pass succeeds and returns that output unchanged.
C6_Idempotent ==
  /\ (san_pc = "twice" => twice = once)
  /\ (v2_pc = "twice" => v2_twice = v2_once)

\* ====================================== a JSON document inside a fenced block
\* Ways to lay out the object with member list p.
Layouts(p) ==
  { Object(p), <<"{">> \o NL \o SP \o <<p>> \o NL \o <<"}">> }

\* The well-formed JSON documents for a kind: those that validate as they are.
DocsFor(kind) ==
  { d \in UNION { Layouts(p) : p \in Payloads } : ModelValidateJson(kind, d).ok }

FxInit ==
  /\ AppIdle
  /\ user_context = CliContext
  /\ SanIdle
  /\ fx_kind \in SchemaKinds
  /\ fx_doc \in DocsFor(fx_kind)
  /\ fx_tagged \in BOOLEAN
  /\ fx_pc = "start"
  /\ fx_direct = Unset
  /\ fx_clean = Unset
  /\ fx_wrapped = Unset
  /\ fx_v2_wrapped = Unset

\* The document as it is goes through stripping and validation.
FxDirect ==
  /\ fx_pc = "start"
  /\ fx_direct' = ModelValidateJson(fx_kind, fx_doc)
  /\ fx_clean' = Sanitize(fx_doc)
  /\ fx_pc' = "direct"
  /\ UNCHANGED <<fx_kind, fx_doc, fx_tagged, fx_wrapped, fx_v2_wrapped, app_vars, san_vars>>

\* handle_query receives the document inside a fenced block.
FxWrappedV5 ==
  /\ fx_pc = "direct"
  /\ fx_wrapped' =
       LET s == Sanitize(Fenced(fx_tagged, fx_doc))
       IN IF s.ok THEN ModelValidateJson(fx_kind, s.text)
          ELSE [ok |-> FALSE, exc |-> s.exc]
  /\ fx_pc' = "v5"
  /\ UNCHANGED <<fx_kind, fx_doc, fx_tagged, fx_direct, fx_clean, fx_v2_wrapped,
                 app_vars, san_vars>>

\* v2's main receives the document inside a fenced block; its only model is
\* TravelPlan.
FxWrappedV2 ==
  /\ fx_pc = "v5"
  /\ fx_kind = "TravelPlan"
  /\ fx_v2_wrapped' = ModelValidateJson("TravelPlan", V2Clean(Fenced(fx_tagged, fx_doc)))
  /\ fx_pc' = "v2"
  /\ UNCHANGED <<fx_kind, fx_doc, fx_tagged, fx_direct, fx_clean, fx_wrapped,
                 app_vars, san_vars>>

FxNext == FxDirect \/ FxWrappedV5 \/ FxWrappedV2

SpecFence == FxInit /\ [][FxNext]_vars

\* C7 as claimed: a well-formed document inside a fenced block, tagged json or
\* not, is stripped and validated to the outcome of validating it directly, by
\* handle_query and by v2's main; and stripping the bare document changes nothing.
C7_FenceTransparent ==
  /\ (fx_pc \in {"v5", "v2"} =>
        /\ fx_direct.ok
        /\ fx_wrapped = fx_direct
        /\ fx_clean = [ok |-> TRUE, text |-> fx_doc])
  /\ (fx_pc = "v2" => fx_v2_wrapped = fx_direct)

\* The part of C7 that is about handle_query alone.
C7_FenceTransparentV5 ==
  fx_pc \in {"v5", "v2"} =>
    /\ fx_direct.ok
    /\ fx_wrapped = fx_direct
    /\ fx_clean = [ok |-> TRUE, text |-> fx_doc]

\* The part of C7 that is about v2's main when the fence is tagged json.
C7_FenceTransparentV2Tagged ==
  fx_pc = "v2" /\ fx_tagged => fx_v2_wrapped = fx_direct

\* ============================================================ the chat GUI
\* Texts the user types, and what the gateway does, in the GUI specification.
GuiQueries == { <<"t","r","i","p">>, <<"f","l","i","g","h","t">> }
GuiOutcomes ==
  { [raised |-> TRUE] }
    \cup { [raised |-> FALSE, content |-> Object(p)] :
             p \in {"budget_block", "budget_pass", "plan_ok"} }
    \cup { [raised |-> FALSE, content |-> <<"s", "o", "r", "r", "y">>] }

Prefs(ctx) ==
  [preferred_airlines |-> ctx.preferred_airlines, hotel_amenities |-> ctx.hotel_amenities,
   budget_level |-> ctx.budget_level]

\* Session state setup of user_context: created once, kept afterwards.
SessionContext(keys, ctx, uid, now) ==
  IF "user_context" \in keys THEN ctx ELSE UserContext(uid, DefaultPrefs, now)

\* One run of the script, from its first line to the call of handle_query (or
\* to its last line when nothing is to be processed).  btn is the button whose
\* click started the run, text what the text box holds, w what the preference
\* widgets hold.
ScriptRun(btn, text, w, uid, now) ==
  LET \* session state setup
      ctx0 == SessionContext(session_keys, user_context, uid, now)
      ch0  == IF "chat_history" \in session_keys THEN chat_history ELSE <<>>
      pm0  == IF "processing_message" \in session_keys THEN processing_message ELSE None
      uiv0 == IF "user_input_value" \in session_keys THEN user_input_value ELSE <<>>
      \* sidebar buttons
      ctx1 == IF btn = "save"
                THEN [ctx0 EXCEPT !.preferred_airlines = w.preferred_airlines,
                                  !.hotel_amenities = w.hotel_amenities,
                                  !.budget_level = w.budget_level]
                ELSE ctx0
      ch1  == IF btn = "new" THEN <<>> ELSE ch0
      pm1  == IF btn = "new" THEN None ELSE pm0
      \* input field and handle_user_message
      submit == text # <<>> /\ pm1 = None
      ch2  == IF submit THEN Append(ch1, [role |-> "user", content |-> text]) ELSE ch1
      pm2  == IF submit THEN text ELSE pm1
      uiv2 == IF submit THEN <<>> ELSE uiv0
      \* agent execution
      runs == pm2 # None /\ pm2 # <<>>
  IN /\ run_pc = "idle"
     /\ runs => Len(ch1) < 2 * MaxTurns
     /\ session_keys' = AllKeys
     /\ user_context' = ctx1
     /\ chat_history' = ch2
     /\ processing_message' = IF runs THEN None ELSE pm2
     /\ user_input_value' = uiv2
     /\ chat_input' = text
     /\ widgets' = w
     /\ button' = btn
     /\ IF runs THEN run_pc' = "agent" /\ Invoke(pm2)
                ELSE run_pc' = "idle" /\ UNCHANGED hq_vars
     /\ UNCHANGED <<proc, san_vars, fx_vars>>

\* The browser opens the page: the first run of the session.
PageLoad ==
  /\ session_keys = {}
  /\ \E uid \in UserIds, now \in Clock : ScriptRun("none", <<>>, DefaultPrefs, uid, now)

\* The user changes the text box and presses Enter.
SubmitText ==
  /\ session_keys # {}
  /\ \E text \in (GuiQueries \cup {<<>>}) \ {chat_input} :
       \E uid \in UserIds, now \in Clock : ScriptRun("none", text, widgets, uid, now)

\* The user changes a preference widget.
ChangeWidget ==
  /\ session_keys # {}
  /\ \E w \in PrefChoices \ {widgets} :
       \E uid \in UserIds, now \in Clock : ScriptRun("none", chat_input, w, uid, now)

\* The user clicks Save Preferences.
ClickSave ==
  /\ session_keys # {}
  /\ \E uid \in UserIds, now \in Clock : ScriptRun("save", chat_input, widgets, uid, now)

\* The user clicks Start New Conversation.
ClickNew ==
  /\ session_keys # {}
  /\ \E uid \in UserIds, now \in Clock : ScriptRun("new", chat_input, widgets, uid, now)

\* An agent block without the try: an exception ends the run before the append.
AgentFinishNoCatch ==
  /\ run_pc = "agent"
  /\ hq_pc = "done"
  /\ chat_history' =
       IF outcome.kind = "raise" THEN chat_history
       ELSE Append(chat_history,
                   [role |-> "assistant", content |-> FormatAgentResponse(outcome.value)])
  /\ run_pc' = "idle"
  /\ Forget
  /\ UNCHANGED <<session_keys, user_context, processing_message, user_input_value,
                 chat_input, widgets, button, proc, san_vars, fx_vars>>

\* handle_query is over: its result is formatted, or its exception turned into
\* an error text, the assistant entry is appended and the run ends.
AgentFinish ==
  /\ run_pc = "agent"
  /\ hq_pc = "done"
  /\ LET response_content ==
           IF outcome.kind = "raise" THEN [view |-> "exception", text |-> outcome.exc]
           ELSE FormatAgentResponse(outcome.value)
     IN chat_history' =
          Append(chat_history, [role |-> "assistant", content |-> response_content])
  /\ run_pc' = "idle"
  /\ Forget
  /\ UNCHANGED <<session_keys, user_context, processing_message, user_input_value,
                 chat_input, widgets, button, proc, san_vars, fx_vars>>

\* The page has not been opened yet; st.session_state is empty.
GuiInit ==
  /\ AppIdle
  /\ user_context = Unset
  /\ SanIdle
  /\ FxIdle

GuiNext ==
  \/ PageLoad
  \/ SubmitText
  \/ ChangeWidget
  \/ ClickSave
  \/ ClickNew
  \/ GuardrailBlocks(GuiOutcomes)
  \/ GuardrailProceeds(GuiOutcomes)
  \/ MainReturns(GuiOutcomes)
  \/ AgentFinish

SpecGUI == GuiInit /\ [][GuiNext]_vars

\* C8: no step of handle_query (build_prompt included) changes the context it
\* was given; once the session has created the context, user_id and
\* session_start never change, and the preference fields change only in the
\* run started by Save Preferences, where they take the widgets' values.
C8_ContextFrame ==
  [][ /\ (hq_pc # "idle" => user_context' = user_context)
      /\ (session_keys # {} =>
            /\ user_context'.user_id = user_context.user_id
            /\ user_context'.session_start = user_context.session_start
            /\ (Prefs(user_context') # Prefs(user_context) =>
                  /\ hq_pc = "idle"
                  /\ button' = "save"
                  /\ Prefs(user_context') = widgets'))
    ]_vars

C8_Witness ==
  /\ run_pc = "agent"
  /\ hq_pc = "done"
  /\ button = "save"
  /\ Prefs(user_context) # DefaultPrefs
  /\ Len(calls) = 2
  /\ IsRecordResult(outcome)

\* chat_history is user/assistant pairs.
Paired(h) ==
  /\ Len(h) % 2 = 0
  /\ \A i \in 1..Len(h) : h[i].role = (IF i % 2 = 1 THEN "user" ELSE "assistant")

\* C10: whenever no script run is in progress, processing_message is None and
\* chat_history is a sequence of user/assistant pairs, also after a run in
\* which handle_query raised.
C10_HistoryPaired ==
  run_pc = "idle" => processing_message = None /\ Paired(chat_history)

C10_Witness ==
  /\ run_pc = "idle"
  /\ Len(chat_history) = 4
  /\ chat_history[2].content.view = "exception"
  /\ chat_history[4].content.view = "plan"
  /\ button = "save"

\* C11 as claimed: a run started by Save Preferences or Start New Conversation
\* neither appends nor processes the text the text box still holds: it never
\* reaches handle_query, and the run of Start New Conversation leaves
\* chat_history empty.
C11_NoResubmission ==
  (session_keys # {} /\ button \in {"save", "new"}) =>
    /\ run_pc = "idle"
    /\ hq_pc = "idle"
    /\ (button = "new" => chat_history = <<>>)


\* The rendering holds every field of the record, in the template of its kind.
RecordRendered(r, v) ==
  /\ r.view = (CASE v.model = "TravelPlan" -> "plan"
                 [] v.model = "FlightRecommendation" -> "flight"
                 [] v.model = "HotelRecommendation" -> "hotel"
                 [] OTHER -> "none")
  /\ \A f \in DOMAIN v.data : f \in DOMAIN r /\ r[f] = v.data[f]

GuardrailRendered(r, v) ==
  /\ r.view = "guardrail"
  /\ r.reasoning = v.reasoning
  /\ r.suggested_budget = v.suggested_budget

\* The rendering is not the text of None and one of its values is the error.
ErrorRendered(r, v) ==
  /\ ~(r.view = "str" /\ r.text = "None")
  /\ \E f \in DOMAIN r \ {"view", "text"} : r[f] = v.error

\* C12 as claimed: whatever handle_query has returned, the rendering that
\* format_agent_response makes of it holds the content of that variant: the
\* fields of a record, the reasoning and suggested budget of a guardrail
\* result, the error text of an error result.
C12_RenderingCarriesContent ==
  (hq_pc = "done" /\ outcome.kind = "return") =>
    LET v == outcome.value
        r == FormatAgentResponse(v)
    IN /\ IsRecordResult(outcome) => RecordRendered(r, v)
       /\ IsGuardrailResult(outcome) => GuardrailRendered(r, v)
       /\ IsErrorResult(outcome) => ErrorRendered(r, v)

====
